---- MODULE Spec2Model ----
(***************************************************************************)
(* A model of PDF_Downloader (src/PDF_Downloader.py): run() reads the      *)
(* source table, scans the download directory, dispatches one thread per   *)
(* queued report under a concurrency limit (download_pdfs), and then       *)
(* writes the status report and the metadata ledger.                       *)
(*                                                                         *)
(* The main thread is run_pc; every report identifier has one worker       *)
(* position wpc[i] (the thread "Download-i" running download_file).        *)
(***************************************************************************)
EXTENDS Integers, Sequences, FiniteSets, TLC

\* ------------------------------------------------------------------ bounds
MaxItems == 2        \* rows of the source table
MaxThreads == 2      \* largest max_concurrent_threads tried
MaxDownloads == 2    \* largest max_downloads tried
MaxPrior == 3        \* rows of a status report or ledger found on disk
MaxUploads == 2      \* calls of upload_to_drive in a row

Ids == 1..MaxItems

\* ------------------------------------------------------------ cell values
NaN == "NaN"                       \* an empty spreadsheet cell (pd.isna)
PDF_LINK == "http://pdf"           \* a value of column Pdf_URL
HTML_LINK == "http://html"         \* a value of column Report Html Address

\* A row of the source table, keyed by its BRnum.
Row(i, pdf, html) == [BRnum |-> i, Pdf_URL |-> pdf, Html |-> html]

\* The URL cells a row of the source table is drawn from.
RowChoices(i) ==
  { Row(i, PDF_LINK, NaN), Row(i, NaN, HTML_LINK), Row(i, NaN, NaN) }

\* The source tables: one row per identifier, in identifier order.
RECURSIVE Tables(_)
Tables(n) ==
  IF n = 0 THEN { <<>> }
  ELSE { Append(t, r) : t \in Tables(n - 1), r \in RowChoices(n) }

\* --------------------------------------------------------------- sequences
RECURSIVE SelectRows(_, _)
\* The rows of s whose identifier is in keep, in order (DataFrame.loc / mask).
SelectRows(s, keep) ==
  IF s = <<>> THEN <<>>
  ELSE IF Head(s).BRnum \in keep
       THEN <<Head(s)>> \o SelectRows(Tail(s), keep)
       ELSE SelectRows(Tail(s), keep)

\* DataFrame.head(n)
HeadRowsUncapped(s, n) == s
HeadRows(s, n) == SubSeq(s, 1, IF n < Len(s) THEN n ELSE Len(s))

\* The index of a table, as a sequence and as a set.
IndexOf(s) == [k \in DOMAIN s |-> s[k].BRnum]
IndexSet(s) == { s[k].BRnum : k \in DOMAIN s }

\* ------------------------------------------------------------------- files
\* str(index), as used in f"{index}.pdf" and str(idx)
Str(i) == ToString(i)

\* os.path.join(download_dir, f"{index}.pdf"): a name is <<stem, extension>>
PdfName(i) == <<Str(i), "pdf">>

FileNames == { PdfName(i) : i \in Ids }

\* os.path.exists(file_path)
Exists(dir, name) == name \in DOMAIN dir /\ dir[name] # "absent"

\* The entry of the directory itself, where a directory has one: "absent"
\* for a directory that does not exist, "unreadable" for one that cannot be
\* listed. A directory without the entry exists and can be listed.
DirEntry == <<".", "">>

\* glob.glob: the names it can list; none in a missing or unreadable directory
listing(dir) ==
  IF DirEntry \in DOMAIN dir /\ dir[DirEntry] \in {"absent", "unreadable"}
  THEN {}
  ELSE { m \in DOMAIN dir \ {DirEntry} : dir[m] # "absent" }

\* get_existing_downloads: glob("*.pdf"), then the base name without ".pdf"
get_existing_downloads_any_file(dir) == { n[1] : n \in listing(dir) }
get_existing_downloads(dir) ==
  { n[1] : n \in { m \in listing(dir) : m[2] = "pdf" } }

\* ------------------------------------------------------- download_errors
\* download_errors is a flat list: an identifier, then its error message.
IdEntry(i) == [kind |-> "id", of |-> i]
\* f"Network error: {e}" / f"Unexpected error: {e}"; `of` stands for the
\* detail {e} of the exception raised in the worker of report i.
MsgEntry(tag, i) == [kind |-> tag, of |-> i]

NoMsg == [kind |-> "", of |-> 0]
FileNotFound == [kind |-> "File not found", of |-> 0]

\* str(download_errors[error_idx + 1])
StrEntry(e) == IF e.kind = "id" THEN [kind |-> "str(id)", of |-> e.of] ELSE e

VARIABLES
  reports_file,            \* the source spreadsheet: [state, rows]
  download_dir,            \* file name -> "absent" | "partial" | "complete"
  status_file,             \* Download_Status.xlsx: [state, rows]
  metadata_file,           \* the metadata ledger: [state, rows]
  backup_file,             \* Metadata2006_2016_Backup.xlsx: [state, rows]
  max_downloads,           \* self.max_downloads
  max_concurrent_threads,  \* self.max_concurrent_threads
  run_pc,                  \* position of the main thread in run()
  reports_data,            \* run(): the rows with a valid URL
  existing_downloads,      \* run(): the scan taken before the downloads
  download_queue,          \* run(): the rows to download
  download_errors,         \* the shared error list
  threads,                 \* download_pdfs: identifiers of the threads started
  wpc,                     \* position of each worker in download_file
  wurl,                    \* the urls each worker passed to requests.get
  wmsg,                    \* the error tag each worker caught ("" if none)
  output,                  \* create_output_report: the new status records
  existing_df,             \* create_output_report: the report read from disk
  report_note,             \* create_output_report: what it printed of the merge
  metadata_df,             \* update_metadata: the ledger as loaded
  new_data,                \* update_metadata: the records of this run
  client_secrets,          \* whether client_secrets.json exists
  credentials,             \* credentials.json: "none" | "expired" | "valid"
  drive_faults,            \* the steps of the upload that raise when taken
  drive_folder,            \* remote folders named PDF-Downloader-Uploads
  drive_files,             \* file name -> remote files of that name in the folder
  gauth_calls,             \* upload_to_drive: the GoogleAuth calls it made
  successful_uploads,      \* upload_to_drive: its counter
  upload_result,           \* what upload_to_drive returned ("" before)
  upload_calls             \* calls of upload_to_drive so far

vars == << reports_file, download_dir, status_file, metadata_file, backup_file,
           max_downloads, max_concurrent_threads, run_pc, reports_data,
           existing_downloads, download_queue, download_errors, threads,
           wpc, wurl, wmsg, output, existing_df, report_note, metadata_df,
           new_data, client_secrets, credentials, drive_faults, drive_folder,
           drive_files, gauth_calls, successful_uploads, upload_result,
           upload_calls >>

\* What upload_to_drive reads and writes.
drive_vars == << client_secrets, credentials, drive_faults, drive_folder,
                drive_files, gauth_calls, successful_uploads, upload_result,
                upload_calls >>

\* The data frames local to create_output_report and update_metadata.
table_locals == << existing_df, report_note, metadata_df, new_data >>

\* ------------------------------------------------------------ the tables
RECURSIVE KeepAt(_, _, _)
\* The rows of s at the positions in keep, from position k on, in order.
KeepAt(s, keep, k) ==
  IF k > Len(s) THEN <<>>
  ELSE IF k \in keep THEN <<s[k]>> \o KeepAt(s, keep, k + 1)
       ELSE KeepAt(s, keep, k + 1)

\* DataFrame.drop_duplicates(subset=[key], keep="last"); keys[k] is the value
\* of the key column in row k. (keep="first" keeps the earliest row instead.)
DropDuplicatesFirst(s, keys) ==
  KeepAt(s, { k \in DOMAIN s :
                \A l \in DOMAIN s : l < k => keys[l] # keys[k] }, 1)
DropDuplicatesLast(s, keys) ==
  KeepAt(s, { k \in DOMAIN s :
                \A l \in DOMAIN s : l > k => keys[l] # keys[k] }, 1)

\* The key columns: "Brnum" of the status report, self.id_column of the ledger.
StatusKey(s) == [k \in DOMAIN s |-> s[k].Brnum]
LedgerKey(s) == [k \in DOMAIN s |-> s[k].BRnum]

StatusRecord(i, status, msg) == [Brnum |-> i, Status |-> status, Msg |-> msg]
LedgerRecord(i, flag) == [BRnum |-> i, pdf_downloaded |-> flag]

Absent == [state |-> "absent", rows |-> <<>>]
Unreadable == [state |-> "unreadable", rows |-> <<>>]
Table(rows) == [state |-> "ok", rows |-> rows]

\* ------------------------------------------------------------- Excel files
\* A blank cell of a sheet; pd.read_excel gives NaN for it and to_excel
\* writes NaN (and "") as a blank cell.
BLANK == ""
read_cell(v) == IF v = BLANK THEN NaN ELSE v
write_cell(v) == IF v = NaN THEN BLANK ELSE v

\* The "Error Message" cell of a status record, blank and as NaN.
NaNMsg == [kind |-> NaN, of |-> 0]

\* pd.read_excel(output_path) / output_df.to_excel(output_path, index=False)
read_status(rows) ==
  [k \in DOMAIN rows |->
     [rows[k] EXCEPT !.Msg = IF @ = NoMsg THEN NaNMsg ELSE @]]
write_status(rows) ==
  [k \in DOMAIN rows |->
     [rows[k] EXCEPT !.Msg = IF @ = NaNMsg THEN NoMsg ELSE @]]

\* A data frame of the ledger: its columns and its rows (column -> value).
Frame(cols, rows) == [cols |-> cols, rows |-> rows]
\* The ledger (or its backup) as a sheet on disk.
LedgerFile(cols, rows) == [state |-> "ok", cols |-> cols, rows |-> rows]

\* self.id_column and 'pdf_downloaded'
BaseCols == {"BRnum", "pdf_downloaded"}
\* reports_data.columns (BRnum is the index, not a column)
SourceCols == {"Pdf_URL", "Html"}

\* pd.read_excel(self.metadata_path, sheet_name=0); identifiers are not blank
read_ledger(file) ==
  Frame(file.cols,
        [k \in DOMAIN file.rows |->
           [c \in DOMAIN file.rows[k] |->
              IF c = "BRnum" THEN file.rows[k][c]
              ELSE read_cell(file.rows[k][c])]])

\* df.to_excel(path, index=False)
to_excel(df) ==
  LedgerFile(df.cols,
             [k \in DOMAIN df.rows |->
                [c \in DOMAIN df.rows[k] |->
                   IF c = "BRnum" THEN df.rows[k][c]
                   ELSE write_cell(df.rows[k][c])]])

\* A row widened to the columns cols: NaN where it has no value.
fill(r, cols) == [c \in cols |-> IF c \in DOMAIN r THEN r[c] ELSE NaN]

\* pd.DataFrame(records): the columns are the keys of the records
data_frame(records) ==
  LET cols == UNION { DOMAIN records[k] : k \in DOMAIN records }
  IN Frame(cols, [k \in DOMAIN records |-> fill(records[k], cols)])

\* pd.concat([a, b], ignore_index=True)
concat(a, b) ==
  LET cols == a.cols \cup b.cols
  IN Frame(cols, [k \in DOMAIN a.rows |-> fill(a.rows[k], cols)]
                 \o [k \in DOMAIN b.rows |-> fill(b.rows[k], cols)])

\* ----------------------------------------------------------- the remote
\* The steps of upload_to_drive that may raise: the authentication, the
\* lookup of the folder, its creation, and the upload of each file.
\* A step is named as a file is, <<name, extension>>.
AUTH == <<"auth", "">>
LIST_FOLDER == <<"list_folder", "">>
CREATE_FOLDER == <<"create_folder", "">>
FaultPoints == {AUTH, LIST_FOLDER, CREATE_FOLDER} \cup FileNames

\* An account that is set up and a remote service that works: stored valid
\* credentials, no folder yet, no call failing.
DriveReady ==
  /\ client_secrets = TRUE
  /\ credentials = "valid"
  /\ drive_faults = {}
  /\ drive_folder = 0
  /\ drive_files = [n \in FileNames |-> 0]
  /\ gauth_calls = <<>>
  /\ successful_uploads = 0
  /\ upload_result = ""
  /\ upload_calls = 0

\* The status reports and ledgers a run may find on disk.
PriorStatusFiles ==
  { Absent, Unreadable, Table(<<StatusRecord(1, "Failed", FileNotFound)>>) }
PriorMetadataFiles ==
  { Absent, Unreadable, LedgerFile(BaseCols, <<LedgerRecord(1, "No")>>) }

\* The download directories a run may find: finished files of earlier runs.
PriorDirs ==
  { [n \in FileNames |-> IF n \in present THEN "complete" ELSE "absent"] :
      present \in SUBSET FileNames }

\* ---------------------------------------------------------------- workers
\* t.is_alive(): started and download_file has not returned
IsAlive(i) == wpc[i] \notin {"idle", "done"}

\* sum(1 for t in threads if t.is_alive())
AliveCount == Cardinality({ k \in DOMAIN threads : IsAlive(threads[k]) })

\* Source tables without one of the two URL columns.
TablesWithoutColumn ==
  { Table(<<[BRnum |-> 1, Html |-> HTML_LINK]>>),
    Table(<<[BRnum |-> 1, Pdf_URL |-> PDF_LINK]>>) }

Init ==
  /\ reports_file \in { Table(t) : t \in Tables(MaxItems) }
                       \cup { Absent, Unreadable } \cup TablesWithoutColumn
  /\ download_dir \in PriorDirs
  /\ status_file \in PriorStatusFiles
  /\ metadata_file \in PriorMetadataFiles
  /\ backup_file = Absent
  /\ max_downloads \in 1..MaxDownloads
  /\ max_concurrent_threads \in (0 - 1)..MaxThreads
  /\ run_pc = "read"
  /\ reports_data = <<>>
  /\ existing_downloads = {}
  /\ download_queue = <<>>
  /\ download_errors = <<>>
  /\ threads = <<>>
  /\ wpc = [i \in Ids |-> "idle"]
  /\ wurl = [i \in Ids |-> <<>>]
  /\ wmsg = [i \in Ids |-> ""]
  /\ output = <<>>
  /\ existing_df = <<>>
  /\ report_note = ""
  /\ DriveReady
  /\ metadata_df = Frame({}, <<>>)
  /\ new_data = Frame({}, <<>>)

\* ------------------------------------------------------------------ run()
\* reports_data.Pdf_URL.notnull() | reports_data['Report Html Address'].notnull()
has_valid_url(r) == r.Pdf_URL # NaN \/ r.Html # NaN

\* [idx for idx in download_queue.index if str(idx) not in existing_downloads]
to_download_unfiltered(index, existing) == index
to_download(index, existing) == { idx \in index : Str(idx) \notin existing }

\* reports_data.Pdf_URL / reports_data['Report Html Address'], line 408:
\* both columns must be in the table
has_url_columns(rows) ==
  \A k \in DOMAIN rows : {"Pdf_URL", "Html"} \subseteq DOMAIN rows[k]

\* lines 397-404: both except clauses of the read end run() with return
after_read_failure_goes_on == "report"
after_read_failure == "aborted"

\* run(), lines 393-404: the source table cannot be read; run() returns.
RunReadFails ==
  /\ run_pc = "read"
  /\ reports_file.state # "ok"
  /\ run_pc' = after_read_failure
  /\ UNCHANGED << drive_vars, table_locals, reports_file, download_dir, status_file, metadata_file,
                  backup_file, max_downloads, max_concurrent_threads,
                  reports_data, existing_downloads, download_queue,
                  download_errors, threads, wpc, wurl, wmsg, output >>

\* run(), lines 393-408: the table is read but a URL column is missing; the
\* AttributeError / KeyError of line 408 is not caught and ends run().
RunColumnMissing ==
  /\ run_pc = "read"
  /\ reports_file.state = "ok"
  /\ ~ has_url_columns(reports_file.rows)
  /\ run_pc' = "raised"
  /\ UNCHANGED << drive_vars, table_locals, reports_file, download_dir, status_file, metadata_file,
                  backup_file, max_downloads, max_concurrent_threads,
                  reports_data, existing_downloads, download_queue,
                  download_errors, threads, wpc, wurl, wmsg, output >>

\* run(), lines 393-439: read, filter, scan, build and cap the queue.
RunPrepare ==
  /\ run_pc = "read"
  /\ reports_file.state = "ok"
  /\ has_url_columns(reports_file.rows)
  /\ LET valid == SelectRows(reports_file.rows,
                    { r.BRnum : r \in { x \in { reports_file.rows[k] :
                        k \in DOMAIN reports_file.rows } : has_valid_url(x) } })
         existing == get_existing_downloads(download_dir)
         needed == SelectRows(valid, to_download(IndexSet(valid), existing))
         queue == IF Len(needed) > max_downloads
                  THEN HeadRows(needed, max_downloads) ELSE needed
     IN /\ reports_data' = valid
        /\ existing_downloads' = existing
        /\ download_queue' = queue
        /\ download_errors' = <<>>
        /\ run_pc' = IF Len(queue) > 0 THEN "start" ELSE "report"
  /\ UNCHANGED << drive_vars, table_locals, reports_file, download_dir, status_file, metadata_file,
                  backup_file, max_downloads, max_concurrent_threads,
                  threads, wpc, wurl, wmsg, output >>

\* ---------------------------------------------------------- download_pdfs
\* the for loop over download_queue.iterrows() has no row left
queue_exhausted_early(started, queue) == Len(started) + 1 >= Len(queue)
queue_exhausted(started, queue) == Len(started) >= Len(queue)

\* while sum(1 for t in threads if t.is_alive()) >= self.max_concurrent_threads
must_wait_above(alive, limit) == alive > limit
must_wait_below(alive, limit) == alive + 1 >= limit
must_wait(alive, limit) == alive >= limit

\* while active_threads > 0
still_active_but_one(alive) == alive > 1
still_active(alive) == alive > 0

\* lines 129-143: create and start the thread of the next row of the queue.
StartThread ==
  /\ run_pc = "start"
  /\ LET index == download_queue[Len(threads) + 1].BRnum
     IN /\ threads' = Append(threads, index)
        /\ wpc' = [wpc EXCEPT ![index] = "fetch"]
  /\ run_pc' = "poll"
  /\ UNCHANGED << drive_vars, table_locals, reports_file, download_dir, status_file, metadata_file,
                  backup_file, max_downloads, max_concurrent_threads,
                  reports_data, existing_downloads, download_queue,
                  download_errors, wurl, wmsg, output >>

\* lines 145-149: leave the wait loop once fewer than the limit are alive
\* (while it must wait, the main thread only sleeps: no state changes).
Admit ==
  /\ run_pc = "poll"
  /\ ~ must_wait(AliveCount, max_concurrent_threads)
  /\ run_pc' = IF queue_exhausted(threads, download_queue)
               THEN "drain" ELSE "start"
  /\ UNCHANGED << drive_vars, table_locals, reports_file, download_dir, status_file, metadata_file,
                  backup_file, max_downloads, max_concurrent_threads,
                  reports_data, existing_downloads, download_queue,
                  download_errors, threads, wpc, wurl, wmsg, output >>

\* lines 151-159: download_pdfs returns once no thread is alive.
Drain ==
  /\ run_pc = "drain"
  /\ ~ still_active(AliveCount)
  /\ run_pc' = "report"
  /\ UNCHANGED << drive_vars, table_locals, reports_file, download_dir, status_file, metadata_file,
                  backup_file, max_downloads, max_concurrent_threads,
                  reports_data, existing_downloads, download_queue,
                  download_errors, threads, wpc, wurl, wmsg, output >>

\* ---------------------------------------------------------- download_file
\* lines 76-81: prefer Pdf_URL when pd.notna(row['Pdf_URL'])
select_url_primary_only(row) == row.Pdf_URL
select_url(row) == IF row.Pdf_URL # NaN THEN row.Pdf_URL ELSE row.Html

\* requests.get + raise_for_status: a link may answer or fail; anything else
\* given as url raises a RequestException (MissingSchema, InvalidURL).
fetch_outcomes(url) ==
  IF url \in {PDF_LINK, HTML_LINK} THEN {"ok", "RequestException"}
  ELSE {"RequestException"}

\* lines 85-98: after requests.get the worker writes the file, or reports
\* the RequestException; it does not fetch again.
next_after_fetch_retry(res) == IF res = "ok" THEN "open" ELSE "fetch"
next_after_fetch(res) == IF res = "ok" THEN "open" ELSE "append_id"

RowOf(i) == CHOOSE r \in { download_queue[k] : k \in DOMAIN download_queue } :
              r.BRnum = i

\* lines 98 / 104: the tag of the reason, by the except clause that caught
\* the exception: RequestException, or any other Exception (OSError of
\* open and write).
error_message_untagged(exc) == "Network error"
error_message(exc) ==
  IF exc = "RequestException" THEN "Network error" ELSE "Unexpected error"

\* lines 74-88 and 96-98: pick the url and fetch it.
Fetch(i) ==
  /\ wpc[i] = "fetch"
  /\ LET url == select_url(RowOf(i))
     IN /\ wurl' = [wurl EXCEPT ![i] = Append(@, url)]
        /\ \E res \in fetch_outcomes(url) :
             /\ wpc' = [wpc EXCEPT ![i] = next_after_fetch(res)]
             /\ wmsg' = IF res = "ok" THEN wmsg
                        ELSE [wmsg EXCEPT ![i] = error_message(res)]
  /\ UNCHANGED << drive_vars, table_locals, reports_file, download_dir, status_file, metadata_file,
                  backup_file, max_downloads, max_concurrent_threads, run_pc,
                  reports_data, existing_downloads, download_queue,
                  download_errors, threads, output >>

\* line 90: file_path = os.path.join(self.download_dir, f"{index}.pdf")
file_path_shared(index) == PdfName(1)
file_path(index) == PdfName(index)

\* lines 91-92: open(file_path, 'wb') creates the (empty) file under its
\* final name, or raises OSError and leaves the directory as it was.
OpenFile(i) ==
  /\ wpc[i] = "open"
  /\ \/ /\ download_dir' = [download_dir EXCEPT ![file_path(i)] = "partial"]
        /\ wpc' = [wpc EXCEPT ![i] = "write"]
        /\ wmsg' = wmsg
     \/ /\ download_dir' = download_dir
        /\ wpc' = [wpc EXCEPT ![i] = "append_id"]
        /\ wmsg' = [wmsg EXCEPT ![i] = error_message("OSError")]
  /\ UNCHANGED << drive_vars, table_locals, reports_file, status_file, metadata_file, backup_file,
                  max_downloads, max_concurrent_threads, run_pc, reports_data,
                  existing_downloads, download_queue, download_errors,
                  threads, wurl, output >>

\* lines 93-95 and 108-111: f.write(response.content) completes the file and
\* download_file returns, or raises OSError with the file left as written.
WriteFile(i) ==
  /\ wpc[i] = "write"
  /\ \/ /\ download_dir' = [download_dir EXCEPT ![file_path(i)] = "complete"]
        /\ wpc' = [wpc EXCEPT ![i] = "done"]
        /\ wmsg' = wmsg
     \/ /\ download_dir' = download_dir
        /\ wpc' = [wpc EXCEPT ![i] = "append_id"]
        /\ wmsg' = [wmsg EXCEPT ![i] = error_message("OSError")]
  /\ UNCHANGED << drive_vars, table_locals, reports_file, status_file, metadata_file, backup_file,
                  max_downloads, max_concurrent_threads, run_pc, reports_data,
                  existing_downloads, download_queue, download_errors,
                  threads, wurl, output >>

\* lines 99 / 105: download_errors.append(index)
AppendId(i) ==
  /\ wpc[i] = "append_id"
  /\ download_errors' = Append(download_errors, IdEntry(i))
  /\ wpc' = [wpc EXCEPT ![i] = "append_msg"]
  /\ UNCHANGED << drive_vars, table_locals, reports_file, download_dir, status_file, metadata_file,
                  backup_file, max_downloads, max_concurrent_threads, run_pc,
                  reports_data, existing_downloads, download_queue, threads,
                  wurl, wmsg, output >>

\* lines 100 / 106 and 108-113: download_errors.append(error_message), return
AppendMsg(i) ==
  /\ wpc[i] = "append_msg"
  /\ download_errors' = Append(download_errors, MsgEntry(wmsg[i], i))
  /\ wpc' = [wpc EXCEPT ![i] = "done"]
  /\ UNCHANGED << drive_vars, table_locals, reports_file, download_dir, status_file, metadata_file,
                  backup_file, max_downloads, max_concurrent_threads, run_pc,
                  reports_data, existing_downloads, download_queue, threads,
                  wurl, wmsg, output >>

\* --------------------------------------------------- create_output_report
\* download_errors.index(index): the first position holding the identifier
FirstIndex(errors, i) ==
  CHOOSE k \in DOMAIN errors :
    /\ errors[k] = IdEntry(i)
    /\ \A l \in DOMAIN errors : errors[l] = IdEntry(i) => k <= l

\* lines 168-181: the record of one row of the queue
status_of_errors_only(i, dir, errors) ==
  IF \E k \in DOMAIN errors : errors[k] = IdEntry(i)
  THEN StatusRecord(i, "Failed", NoMsg)
  ELSE StatusRecord(i, "Failed", FileNotFound)
status_of(i, dir, errors) ==
  IF Exists(dir, PdfName(i))
  THEN StatusRecord(i, "Downloaded", NoMsg)
  ELSE IF \E k \in DOMAIN errors : errors[k] = IdEntry(i)
       THEN LET error_idx == FirstIndex(errors, i)
            IN IF error_idx + 1 <= Len(errors)
               THEN StatusRecord(i, "Failed", StrEntry(errors[error_idx + 1]))
               ELSE StatusRecord(i, "Failed", NoMsg)
       ELSE StatusRecord(i, "Failed", FileNotFound)

\* lines 167-184: output, one record per row of the queue, in queue order
new_output(queue, dir, errors) ==
  [k \in DOMAIN queue |-> status_of(queue[k].BRnum, dir, errors)]

\* lines 189-205: the report to save, from the report on disk and the new one
merged_report_strict(prior, new) ==
  IF prior.state = "unreadable" THEN <<>>
  ELSE IF prior.state = "ok"
       THEN LET output_df == read_status(prior.rows) \o new
            IN DropDuplicatesLast(output_df, StatusKey(output_df))
       ELSE new
merged_report(prior, new) ==
  IF prior.state = "ok"
  THEN LET output_df == read_status(prior.rows) \o new
       IN DropDuplicatesLast(output_df, StatusKey(output_df))
  ELSE new

\* lines 190-203: what create_output_report prints of the report on disk
merge_note(prior) ==
  CASE prior.state = "ok" -> "Appending to existing download status report"
    [] prior.state = "absent" -> "Creating new download status report."
    [] OTHER -> "Error reading existing report file"

\* create_output_report, lines 161-209
CreateOutputReport ==
  /\ run_pc = "report"
  /\ output' = new_output(download_queue, download_dir, download_errors)
  /\ existing_df' = IF status_file.state = "ok"
                    THEN read_status(status_file.rows) ELSE <<>>
  /\ report_note' = merge_note(status_file)
  /\ status_file' = Table(write_status(merged_report(status_file, output')))
  /\ run_pc' = "metadata"
  /\ UNCHANGED << drive_vars, metadata_df, new_data, reports_file, download_dir, metadata_file, backup_file,
                  max_downloads, max_concurrent_threads, reports_data,
                  existing_downloads, download_queue, download_errors,
                  threads, wpc, wurl, wmsg >>

\* -------------------------------------------------------- update_metadata
\* line 236: 'Yes' if str(report_id) in downloaded_files else 'No'
\* (without str() an identifier read as a number matches no file name)
download_flag_unconverted(report_id, downloaded_files) == "No"
download_flag(report_id, downloaded_files) ==
  IF Str(report_id) \in downloaded_files THEN "Yes" ELSE "No"

\* line 245: copy a source column only when the ledger has it
copy_column_always(col, ledger_cols) == col \notin BaseCols
copy_column(col, ledger_cols) == col \in ledger_cols /\ col \notin BaseCols

\* lines 239-246: the record of one identifier of the queue
new_record(report_id, reports, ledger_cols, downloaded_files) ==
  LET base == LedgerRecord(report_id, download_flag(report_id, downloaded_files))
      copied == IF report_id \in IndexSet(reports)
                THEN { col \in SourceCols : copy_column(col, ledger_cols) }
                ELSE {}
      row == CHOOSE r \in { reports[k] : k \in DOMAIN reports } :
               r.BRnum = report_id
  IN [c \in BaseCols \cup copied |-> IF c \in BaseCols THEN base[c] ELSE row[c]]

\* lines 234-248: one record per identifier of the queue
new_records(queue, reports, ledger_cols, downloaded_files) ==
  [k \in DOMAIN queue |->
     new_record(queue[k].BRnum, reports, ledger_cols, downloaded_files)]

\* lines 254-256: the frame saved as the backup
backup_content_updated(df, new) == concat(df, new)
backup_content(df, new) == df

\* lines 259-264: append the new records, keep the last row per identifier
updated_metadata_appended(df, new) == concat(df, new)
updated_metadata_overwritten(df, new) == Frame(df.cols \cup new.cols, new.rows)
updated_metadata(df, new) ==
  LET appended == concat(df, new)
  IN Frame(appended.cols,
           DropDuplicatesLast(appended.rows, LedgerKey(appended.rows)))

\* update_metadata, lines 211-257: load the ledger, scan the downloads, build
\* the new records and save the backup; pd.read_excel of an unreadable
\* ledger raises and the exception leaves run().
UpdateMetadata ==
  /\ run_pc = "metadata"
  /\ IF metadata_file.state = "unreadable"
     THEN /\ run_pc' = "crashed"
          /\ UNCHANGED << backup_file, metadata_df, new_data >>
     ELSE LET loaded == IF metadata_file.state = "absent"
                        THEN Frame(BaseCols, <<>>)
                        ELSE read_ledger(metadata_file)
              downloaded_files == get_existing_downloads(download_dir)
              records == new_records(download_queue, reports_data,
                                     loaded.cols, downloaded_files)
          IN /\ metadata_df' = loaded
             /\ new_data' = data_frame(records)
             /\ backup_file' = to_excel(backup_content(loaded, new_data'))
             /\ run_pc' = "save_metadata"
  /\ UNCHANGED << drive_vars, existing_df, report_note, reports_file, download_dir, status_file,
                  metadata_file, max_downloads, max_concurrent_threads,
                  reports_data, existing_downloads, download_queue,
                  download_errors, threads, wpc, wurl, wmsg, output >>

\* update_metadata, lines 259-272: merge and overwrite the ledger.
SaveMetadata ==
  /\ run_pc = "save_metadata"
  /\ metadata_file' = to_excel(updated_metadata(metadata_df, new_data))
  /\ run_pc' = "upload"
  /\ UNCHANGED << drive_vars, table_locals, reports_file, download_dir, status_file,
                  backup_file, max_downloads, max_concurrent_threads,
                  reports_data, existing_downloads, download_queue,
                  download_errors, threads, wpc, wurl, wmsg, output >>

\* ---------------------------------------------------------- upload_to_drive
\* lines 291-304: the one GoogleAuth call chosen by the loaded credentials
auth_action(creds) ==
  CASE creds = "none" -> "LocalWebserverAuth"
    [] creds = "expired" -> "Refresh"
    [] OTHER -> "Authorize"

\* lines 291-307: the calls made on gauth, SaveCredentialsFile after the
\* authentication unless that raised
gauth_sequence_save_first(creds, faults) ==
  <<"SaveCredentialsFile", auth_action(creds)>>
gauth_sequence(creds, faults) ==
  IF AUTH \in faults THEN <<auth_action(creds)>>
  ELSE <<auth_action(creds), "SaveCredentialsFile">>

\* line 312: glob.glob(os.path.join(self.download_dir, "*.pdf"))
downloaded_files(dir) == { m \in listing(dir) : m[2] = "pdf" }

\* lines 347-375: the remote files after the loop: a file is created when
\* its name is not in the folder and none of its calls raises
uploaded_unchecked(local, faults, remote) ==
  [n \in DOMAIN remote |->
     IF n \in local /\ n \notin faults THEN remote[n] + 1 ELSE remote[n]]
uploaded(local, faults, remote) ==
  [n \in DOMAIN remote |->
     IF n \in local /\ n \notin faults /\ remote[n] = 0
     THEN remote[n] + 1 ELSE remote[n]]

\* lines 358-375: successful_uploads, counting the skipped files too
count_successful(local, faults, remote) == Cardinality(local \ faults)

\* lines 278-389: what the call returns
returns_true_always(secrets, faults, local, folder) == "True"
returns(secrets, faults, local, folder) ==
  IF ~ secrets THEN "False"
  ELSE IF AUTH \in faults THEN "False"
  ELSE IF local = {} THEN "True"
  ELSE IF LIST_FOLDER \in faults THEN "False"
  ELSE IF folder = 0 /\ CREATE_FOLDER \in faults THEN "False"
  ELSE "True"

\* upload_to_drive, lines 274-389; run() ignores the result (lines 446-449).
\* Nothing else runs beside it, so the call is one step.
UploadToDrive ==
  /\ run_pc = "upload"
  /\ run_pc' = "done"
  /\ upload_calls' = upload_calls + 1
  /\ LET local == downloaded_files(download_dir)
         result == returns(client_secrets, drive_faults, local, drive_folder)
         authenticated == client_secrets /\ AUTH \notin drive_faults
         in_loop == result = "True" /\ local # {}
     IN /\ upload_result' = result
        /\ gauth_calls' = IF client_secrets
                          THEN gauth_sequence(credentials, drive_faults)
                          ELSE <<>>
        /\ credentials' = IF authenticated THEN "valid" ELSE credentials
        /\ drive_folder' = IF in_loop /\ drive_folder = 0 THEN 1
                           ELSE drive_folder
        /\ drive_files' = IF in_loop
                          THEN uploaded(local, drive_faults, drive_files)
                          ELSE drive_files
        /\ successful_uploads' =
             IF in_loop THEN count_successful(local, drive_faults, drive_files)
             ELSE 0
  /\ UNCHANGED << table_locals, client_secrets, drive_faults, reports_file,
                  download_dir, status_file, metadata_file,
                  backup_file, max_downloads, max_concurrent_threads,
                  reports_data, existing_downloads, download_queue,
                  download_errors, threads, wpc, wurl, wmsg, output >>

Next ==
  \/ RunReadFails
  \/ RunColumnMissing
  \/ RunPrepare
  \/ StartThread
  \/ Admit
  \/ Drain
  \/ \E i \in Ids : Fetch(i)
  \/ \E i \in Ids : OpenFile(i)
  \/ \E i \in Ids : WriteFile(i)
  \/ \E i \in Ids : AppendId(i)
  \/ \E i \in Ids : AppendMsg(i)
  \/ CreateOutputReport
  \/ UpdateMetadata
  \/ SaveMetadata
  \/ UploadToDrive

Spec == Init /\ [][Next]_vars

\* ------------------------------------------- create_output_report, called
\* directly (lines 465-467) on a queue, an error list and a report on disk
RECURSIVE SeqsUpTo(_, _)
\* The sequences over S of length at most n.
SeqsUpTo(S, n) ==
  IF n = 0 THEN { <<>> }
  ELSE LET shorter == SeqsUpTo(S, n - 1)
       IN shorter \cup { Append(q, x) : q \in shorter, x \in S }

\* A source table whose rows all have a Pdf_URL.
FullTable == [i \in Ids |-> Row(i, PDF_LINK, NaN)]

\* The rows a report on disk may hold.
StatusRows ==
  { StatusRecord(i, "Downloaded", NoMsg) : i \in Ids }
    \cup { StatusRecord(i, "Failed", FileNotFound) : i \in Ids }

\* Error lists for the identifiers ids: none, id/message pairs in order, and
\* the identifiers followed by the messages.
ErrorLists(ids) ==
  { <<>>,
    [k \in 1..(2 * Len(ids)) |->
       IF k % 2 = 1 THEN IdEntry(ids[(k + 1) \div 2])
       ELSE MsgEntry("Network error", ids[k \div 2])],
    [k \in 1..(2 * Len(ids)) |->
       IF k <= Len(ids) THEN IdEntry(ids[k])
       ELSE MsgEntry("Network error", ids[k - Len(ids)])] }

\* What the calls below share: no run() before them, no worker started.
DirectCall(queue) ==
  /\ reports_file = Table(FullTable)
  /\ reports_data = FullTable
  /\ download_queue = queue
  /\ max_downloads = MaxDownloads
  /\ max_concurrent_threads = MaxThreads
  /\ existing_downloads = {}
  /\ threads = <<>>
  /\ wpc = [i \in Ids |-> "idle"]
  /\ wurl = [i \in Ids |-> <<>>]
  /\ wmsg = [i \in Ids |-> ""]
  /\ output = <<>>
  /\ existing_df = <<>>
  /\ report_note = ""
  /\ metadata_df = Frame({}, <<>>)
  /\ new_data = Frame({}, <<>>)
  /\ backup_file = Absent

InitReport ==
  /\ \E keep \in SUBSET Ids :
       /\ DirectCall(SelectRows(FullTable, keep))
       /\ download_errors \in ErrorLists(IndexOf(SelectRows(FullTable, keep)))
  /\ download_dir \in PriorDirs
  /\ status_file \in { Absent, Unreadable }
                       \cup { Table(r) : r \in SeqsUpTo(StatusRows, MaxPrior) }
  /\ metadata_file = Absent
  /\ run_pc = "report"
  /\ DriveReady

NextReport == CreateOutputReport

SpecReport == InitReport /\ [][NextReport]_vars

\* ------------------------------------------------ run() on a source table
\* whose rows all have a link: both links, or one of the two
UrlRowChoices(i) ==
  { Row(i, PDF_LINK, HTML_LINK), Row(i, PDF_LINK, NaN), Row(i, NaN, HTML_LINK) }

RECURSIVE UrlTables(_)
UrlTables(n) ==
  IF n = 0 THEN { <<>> }
  ELSE { Append(t, r) : t \in UrlTables(n - 1), r \in UrlRowChoices(n) }

\* A first run: nothing downloaded, no status report and no ledger yet.
InitUrls ==
  /\ reports_file \in { Table(t) : t \in UrlTables(MaxItems) }
                       \cup { Absent } \cup TablesWithoutColumn
  /\ download_dir = [n \in FileNames |-> "absent"]
  /\ status_file = Absent
  /\ metadata_file = Absent
  /\ backup_file = Absent
  /\ max_downloads = MaxDownloads
  /\ max_concurrent_threads \in 1..MaxThreads
  /\ run_pc = "read"
  /\ reports_data = <<>>
  /\ existing_downloads = {}
  /\ download_queue = <<>>
  /\ download_errors = <<>>
  /\ threads = <<>>
  /\ wpc = [i \in Ids |-> "idle"]
  /\ wurl = [i \in Ids |-> <<>>]
  /\ wmsg = [i \in Ids |-> ""]
  /\ output = <<>>
  /\ existing_df = <<>>
  /\ report_note = ""
  /\ DriveReady
  /\ metadata_df = Frame({}, <<>>)
  /\ new_data = Frame({}, <<>>)

SpecUrls == InitUrls /\ [][Next]_vars

\* ------------------------------------------------- download_file, called
\* directly (lines 457-459) on rows whose cells may also be empty strings
FetchRowChoices(i) ==
  { Row(i, pdf, html) : pdf \in {PDF_LINK, NaN, BLANK},
                        html \in {HTML_LINK, NaN, BLANK} }

RECURSIVE FetchTables(_)
FetchTables(n) ==
  IF n = 0 THEN { <<>> }
  ELSE { Append(t, r) : t \in FetchTables(n - 1), r \in FetchRowChoices(n) }

\* download_file has been called for every row, and none has fetched yet.
InitFetch ==
  /\ \E t \in FetchTables(MaxItems) :
       /\ reports_file = Table(t)
       /\ reports_data = t
       /\ download_queue = t
  /\ download_dir = [n \in FileNames |-> "absent"]
  /\ status_file = Absent
  /\ metadata_file = Absent
  /\ backup_file = Absent
  /\ max_downloads = MaxDownloads
  /\ max_concurrent_threads = MaxThreads
  /\ run_pc = "direct"        \* no run() around the calls
  /\ existing_downloads = {}
  /\ download_errors = <<>>
  /\ threads = <<>>
  /\ wpc = [i \in Ids |-> "fetch"]
  /\ wurl = [i \in Ids |-> <<>>]
  /\ wmsg = [i \in Ids |-> ""]
  /\ output = <<>>
  /\ existing_df = <<>>
  /\ report_note = ""
  /\ DriveReady
  /\ metadata_df = Frame({}, <<>>)
  /\ new_data = Frame({}, <<>>)

NextFetch ==
  \/ \E i \in Ids : Fetch(i)
  \/ \E i \in Ids : OpenFile(i)
  \/ \E i \in Ids : WriteFile(i)
  \/ \E i \in Ids : AppendId(i)
  \/ \E i \in Ids : AppendMsg(i)

SpecFetch == InitFetch /\ [][NextFetch]_vars

\* -------------------------------------- get_existing_downloads, called
\* directly (lines 453-455) on a download directory of any content
\* The names a download directory may hold besides the reports' files.
OtherNames == { <<Str(i), "txt">> : i \in Ids } \cup { <<"notes", "pdf">> }

\* The directories: listable ones, unreadable ones, and the missing one.
ScanDirs ==
  { d \in [FileNames \cup OtherNames \cup {DirEntry}
             -> {"absent", "partial", "complete", "unreadable"}] :
      /\ \A n \in FileNames : d[n] # "unreadable"
      /\ \A n \in OtherNames : d[n] \in {"absent", "complete"}
      /\ d[DirEntry] # "partial"
      /\ d[DirEntry] = "absent" =>
           \A n \in FileNames \cup OtherNames : d[n] = "absent" }

InitScan ==
  /\ DirectCall(<<>>)
  /\ download_errors = <<>>
  /\ download_dir \in ScanDirs
  /\ status_file = Absent
  /\ metadata_file = Absent
  /\ run_pc = "scan"
  /\ DriveReady

\* lines 55-68 (and 417, 227): the call and its result
GetExistingDownloads ==
  /\ run_pc = "scan"
  /\ existing_downloads' = get_existing_downloads(download_dir)
  /\ run_pc' = "scanned"
  /\ UNCHANGED << drive_vars, table_locals, reports_file, download_dir, status_file,
                  metadata_file, backup_file, max_downloads,
                  max_concurrent_threads, reports_data, download_queue,
                  download_errors, threads, wpc, wurl, wmsg, output >>

NextScan == GetExistingDownloads

SpecScan == InitScan /\ [][NextScan]_vars

\* ------------------------------------------------ run() under fair scheduling
\* The steps of the main thread and of the thread "Download-i".
MainThread ==
  \/ RunReadFails
  \/ RunColumnMissing
  \/ RunPrepare
  \/ StartThread
  \/ Admit
  \/ Drain
  \/ CreateOutputReport
  \/ UpdateMetadata
  \/ SaveMetadata
  \/ UploadToDrive

Worker(i) ==
  \/ Fetch(i)
  \/ OpenFile(i)
  \/ WriteFile(i)
  \/ AppendId(i)
  \/ AppendMsg(i)

\* Every thread that can take a step gets to take it: the main thread only
\* sleeps between polls, requests.get returns or raises within its timeout.
Fairness ==
  /\ WF_vars(MainThread)
  /\ \A i \in Ids : WF_vars(Worker(i))

\* A first run on a source table whose rows all have a Pdf_URL, or on one
\* that run() cannot use.
InitFair ==
  /\ reports_file \in { Table(FullTable), Absent } \cup TablesWithoutColumn
  /\ download_dir = [n \in FileNames |-> "absent"]
  /\ status_file = Absent
  /\ metadata_file = Absent
  /\ backup_file = Absent
  /\ max_downloads = MaxDownloads
  /\ max_concurrent_threads \in 1..MaxThreads
  /\ run_pc = "read"
  /\ reports_data = <<>>
  /\ existing_downloads = {}
  /\ download_queue = <<>>
  /\ download_errors = <<>>
  /\ threads = <<>>
  /\ wpc = [i \in Ids |-> "idle"]
  /\ wurl = [i \in Ids |-> <<>>]
  /\ wmsg = [i \in Ids |-> ""]
  /\ output = <<>>
  /\ existing_df = <<>>
  /\ report_note = ""
  /\ DriveReady
  /\ metadata_df = Frame({}, <<>>)
  /\ new_data = Frame({}, <<>>)

SpecFair == InitFair /\ [][Next]_vars /\ Fairness

\* ------------------------------------------------ main(), time after time
\* A first run as above, with any cap on the downloads of a run.
InitRuns ==
  /\ reports_file \in { Table(FullTable), Absent } \cup TablesWithoutColumn
  /\ download_dir = [n \in FileNames |-> "absent"]
  /\ status_file = Absent
  /\ metadata_file = Absent
  /\ backup_file = Absent
  /\ max_downloads \in 1..MaxDownloads
  /\ max_concurrent_threads \in 1..MaxThreads
  /\ run_pc = "read"
  /\ reports_data = <<>>
  /\ existing_downloads = {}
  /\ download_queue = <<>>
  /\ download_errors = <<>>
  /\ threads = <<>>
  /\ wpc = [i \in Ids |-> "idle"]
  /\ wurl = [i \in Ids |-> <<>>]
  /\ wmsg = [i \in Ids |-> ""]
  /\ output = <<>>
  /\ existing_df = <<>>
  /\ report_note = ""
  /\ DriveReady
  /\ metadata_df = Frame({}, <<>>)
  /\ new_data = Frame({}, <<>>)

\* lines 478-480: the program is started again once a run is over, with a
\* new PDF_Downloader on the same files and the same remote folder.
RunAgain ==
  /\ run_pc \in {"done", "aborted", "raised", "crashed"}
  /\ run_pc' = "read"
  /\ reports_data' = <<>>
  /\ existing_downloads' = {}
  /\ download_queue' = <<>>
  /\ download_errors' = <<>>
  /\ threads' = <<>>
  /\ wpc' = [i \in Ids |-> "idle"]
  /\ wurl' = [i \in Ids |-> <<>>]
  /\ wmsg' = [i \in Ids |-> ""]
  /\ output' = <<>>
  /\ existing_df' = <<>>
  /\ report_note' = ""
  /\ metadata_df' = Frame({}, <<>>)
  /\ new_data' = Frame({}, <<>>)
  /\ gauth_calls' = <<>>
  /\ successful_uploads' = 0
  /\ upload_result' = ""
  /\ upload_calls' = 0
  /\ UNCHANGED << reports_file, download_dir, status_file, metadata_file,
                  backup_file, max_downloads, max_concurrent_threads,
                  client_secrets, credentials, drive_faults, drive_folder,
                  drive_files >>

NextRuns ==
  \/ Next
  \/ RunAgain

\* Every thread gets its steps and the program is always started again.
SpecRuns == InitRuns /\ [][NextRuns]_vars /\ Fairness /\ WF_vars(RunAgain)

\* ------------------------------------------------ upload_to_drive, called
\* directly (lines 473-475), once or several times, on any account and remote
InitUpload ==
  /\ DirectCall(<<>>)
  /\ download_errors = <<>>
  /\ download_dir \in PriorDirs
  /\ status_file = Absent
  /\ metadata_file = Absent
  /\ run_pc = "upload"
  /\ client_secrets \in BOOLEAN
  /\ credentials \in {"none", "expired", "valid"}
  /\ drive_faults \in SUBSET FaultPoints
  /\ drive_folder \in {0, 1}
  /\ drive_files \in [FileNames -> {0, 1}]
  /\ drive_folder = 0 => \A n \in FileNames : drive_files[n] = 0
  /\ gauth_calls = <<>>
  /\ successful_uploads = 0
  /\ upload_result = ""
  /\ upload_calls = 0

\* The call is made again; other steps may raise this time.
UploadAgain ==
  /\ run_pc = "done"
  /\ upload_calls < MaxUploads
  /\ run_pc' = "upload"
  /\ drive_faults' \in SUBSET FaultPoints
  /\ UNCHANGED << table_locals, client_secrets, credentials, drive_folder,
                  drive_files, gauth_calls, successful_uploads, upload_result,
                  upload_calls, reports_file, download_dir, status_file,
                  metadata_file, backup_file, max_downloads,
                  max_concurrent_threads, reports_data, existing_downloads,
                  download_queue, download_errors, threads, wpc, wurl, wmsg,
                  output >>

NextUpload ==
  \/ UploadToDrive
  \/ UploadAgain

SpecUpload == InitUpload /\ [][NextUpload]_vars

\* ================================================================ claims
\* download_pdfs is over: run() is past its call (or never made it).
AfterDownload ==
  {"report", "metadata", "save_metadata", "upload", "done", "crashed"}
\* run() has built its queue.
Prepared == run_pc \notin {"read", "aborted", "raised"}
\* create_output_report is over.
AfterReport == {"metadata", "save_metadata", "upload", "done", "crashed"}

\* The worker of report i caught an exception and reported the reason below.
WorkerFailed(i) == wmsg[i] # ""
OwnReason(i) == MsgEntry(wmsg[i], i)

\* ------------------------------------------------ update_metadata, called
\* directly (lines 469-471) on a queue, the source table and a ledger on disk
\* The column sets a ledger on disk may have: the identifier and the flag,
\* and possibly a column of the source table or a column of its own.
LedgerColChoices ==
  { BaseCols, BaseCols \cup {"Pdf_URL"}, BaseCols \cup {"Note"} }

\* The rows a ledger with the columns cols may hold.
LedgerRows(cols) ==
  { [c \in cols |->
       CASE c = "BRnum" -> i
         [] c = "pdf_downloaded" -> flag
         [] c = "Pdf_URL" -> BLANK
         [] OTHER -> "note"] : i \in Ids, flag \in {"Yes", "No"} }

InitLedger ==
  /\ \E keep \in SUBSET Ids : DirectCall(SelectRows(FullTable, keep))
  /\ download_errors = <<>>
  /\ download_dir \in PriorDirs
  /\ status_file = Absent
  /\ metadata_file \in
       { Absent, Unreadable }
         \cup { LedgerFile(cols, rows) :
                  cols \in LedgerColChoices,
                  rows \in UNION { SeqsUpTo(LedgerRows(c), MaxPrior) :
                                     c \in LedgerColChoices } }
  /\ metadata_file.state = "ok" =>
       \A k \in DOMAIN metadata_file.rows :
         DOMAIN metadata_file.rows[k] = metadata_file.cols
  /\ run_pc = "metadata"
  /\ DriveReady

NextLedger ==
  \/ UpdateMetadata
  \/ SaveMetadata

SpecLedger == InitLedger /\ [][NextLedger]_vars

\* ------------------------------------- create_output_report and
\* update_metadata, called directly (lines 465-471) time after time: each
\* time on a queue and the downloads found then, and on the
\* status report and the ledger the calls before left on disk
InitHistory ==
  /\ \E keep \in SUBSET Ids : DirectCall(SelectRows(FullTable, keep))
  /\ download_errors = <<>>
  /\ download_dir \in PriorDirs
  /\ status_file \in { Absent, Unreadable }
                       \cup { Table(<<r>>) : r \in StatusRows }
  /\ metadata_file \in
       { Absent, Unreadable }
         \cup { LedgerFile(BaseCols \cup {"Note"}, <<r>>) :
                  r \in LedgerRows(BaseCols \cup {"Note"}) }
  /\ run_pc = "report"
  /\ DriveReady

\* The next pair of calls: another queue, and a download
\* directory that has the files it had and possibly more.
CallAgain ==
  /\ run_pc = "upload"
  /\ \E keep \in SUBSET Ids : download_queue' = SelectRows(FullTable, keep)
  /\ download_dir' \in { d \in PriorDirs :
                           \A n \in FileNames :
                             Exists(download_dir, n) => Exists(d, n) }
  /\ run_pc' = "report"
  /\ UNCHANGED << drive_vars, table_locals, reports_file, status_file,
                  metadata_file, backup_file, max_downloads,
                  max_concurrent_threads, reports_data, existing_downloads,
                  download_errors, threads, wpc, wurl, wmsg, output >>

NextHistory ==
  \/ CreateOutputReport
  \/ UpdateMetadata
  \/ SaveMetadata
  \/ CallAgain

SpecHistory == InitHistory /\ [][NextHistory]_vars

\* The rows of s whose identifier is i / the last of them.
RowsOf(s, i) == { k \in DOMAIN s : s[k].Brnum = i }
LastRowOf(s, i) ==
  s[CHOOSE k \in RowsOf(s, i) : \A l \in RowsOf(s, i) : l <= k]

\* C1: with a concurrency limit of at least 1, the number of alive worker
\* threads never exceeds max_concurrent_threads.
C1_ConcurrencyBound ==
  max_concurrent_threads >= 1 => AliveCount <= max_concurrent_threads

\* The limit is reached while rows of the queue are still waiting.
C1_Witness ==
  /\ max_concurrent_threads >= 1
  /\ run_pc = "poll"
  /\ AliveCount = max_concurrent_threads
  /\ Len(threads) < Len(download_queue)

\* C2: download_pdfs starts one thread per row of the queue: no identifier is
\* started twice, and when it has returned the threads started are exactly
\* the rows of the queue.
C2_OneWorkerPerItem ==
  /\ \A k, l \in DOMAIN threads : threads[k] = threads[l] => k = l
  /\ run_pc \in AfterDownload => threads = IndexOf(download_queue)

\* download_pdfs has returned from a queue of several rows.
C2_Witness ==
  /\ run_pc = "report"
  /\ Len(download_queue) >= 2
  /\ Len(threads) = Len(download_queue)

\* C3: once download_pdfs has returned no started worker is alive, so
\* nothing can still append to download_errors or write a file.
C3_FullDrain ==
  run_pc \in AfterDownload => \A i \in Ids : ~ IsAlive(i)

\* download_pdfs has returned after a failed and a successful download.
C3_Witness ==
  /\ run_pc = "report"
  /\ Len(threads) >= 2
  /\ download_errors # <<>>
  /\ \E i \in Ids : wpc[i] = "done" /\ ~ WorkerFailed(i)

\* C4: with a concurrency limit <= 0 the dispatcher rejects the
\* configuration and starts no worker.
C4_NonPositiveLimitRejected ==
  max_concurrent_threads <= 0 => threads = <<>>

\* Success: the artifact was written and download_errors has no entry.
Success(i) ==
  /\ download_dir[PdfName(i)] = "complete"
  /\ \A k \in DOMAIN download_errors : download_errors[k] # IdEntry(i)

\* Failure: download_errors holds exactly one identifier/reason pair for i.
Failure(i) ==
  /\ Cardinality({ k \in DOMAIN download_errors :
                     download_errors[k] = IdEntry(i) }) = 1
  /\ LET k == FirstIndex(download_errors, i)
     IN /\ k + 1 <= Len(download_errors)
        /\ download_errors[k + 1].kind # "id"

\* C5: after download_pdfs has returned every row of the queue has exactly
\* one outcome, Success or Failure.
C5_ExactlyOneOutcome ==
  run_pc \in AfterDownload =>
    \A i \in IndexSet(download_queue) : Success(i) # Failure(i)

\* C6: the reason the status report records for a failed row is the reason
\* that row's own worker emitted.
C6_OwnReasonReported ==
  run_pc \in AfterReport =>
    \A k \in DOMAIN output :
      output[k].Status = "Failed" => output[k].Msg = OwnReason(output[k].Brnum)

\* C7: a file is under its final name in the download directory only when it
\* is complete, so a scan after the downloads finds only complete artifacts.
C7_OnlyCompleteArtifacts ==
  run_pc \in AfterDownload =>
    \A i \in Ids :
      Str(i) \in get_existing_downloads(download_dir)
        => download_dir[PdfName(i)] = "complete"

\* The record the claim gives a row of the queue.
ClaimedStatus(i) ==
  IF Exists(download_dir, PdfName(i)) \/ Success(i)
  THEN StatusRecord(i, "Downloaded", NoMsg)
  ELSE IF WorkerFailed(i)
       THEN StatusRecord(i, "Failed", OwnReason(i))
       ELSE StatusRecord(i, "Failed", FileNotFound)

\* C8: the new status record of every row is (id, Downloaded, "") when its
\* artifact is present, else (id, Failed, its recorded reason), or
\* "File not found" when nothing was recorded for it.
C8_StatusRecords ==
  run_pc \in AfterReport =>
    output = [k \in DOMAIN download_queue |->
                ClaimedStatus(download_queue[k].BRnum)]

\* The rows of the source table with at least one candidate URL.
Considered ==
  { r.BRnum : r \in { x \in { reports_file.rows[k] :
                        k \in DOMAIN reports_file.rows } : has_valid_url(x) } }

\* C9: after run() every considered item is in the status report exactly
\* once, an item whose artifact existed before the run as Downloaded.
C9_EveryConsideredItemReported ==
  run_pc = "done" =>
    \A i \in Considered :
      /\ Cardinality({ k \in DOMAIN status_file.rows :
                         status_file.rows[k].Brnum = i }) = 1
      /\ Str(i) \in existing_downloads =>
           \E k \in DOMAIN status_file.rows :
             status_file.rows[k] = StatusRecord(i, "Downloaded", NoMsg)

\* C10: no worker is started for an identifier the scan at the start of the
\* run reported as present.
C10_NoWorkerForExisting ==
  \A k \in DOMAIN threads : Str(threads[k]) \notin existing_downloads

\* A run whose table holds a report already downloaded started a worker for
\* another one.
C10_Witness ==
  /\ threads # <<>>
  /\ \E i \in IndexSet(reports_data) : Str(i) \in existing_downloads

\* C11: the saved status report has one row per identifier, the new record
\* for every identifier of this run, the (last) prior record for every
\* identifier only in the prior report, and merging the same new records
\* into it again leaves it unchanged.
C11_MergeNewestWins ==
  run_pc \in AfterReport =>
    LET saved == status_file.rows
        ids == { saved[k].Brnum : k \in DOMAIN saved }
    IN /\ \A i \in ids : Cardinality(RowsOf(saved, i)) = 1
       /\ \A k \in DOMAIN output :
            /\ output[k].Brnum \in ids
            /\ LastRowOf(saved, output[k].Brnum) = output[k]
       /\ \A k \in DOMAIN existing_df :
            LET i == existing_df[k].Brnum
            IN RowsOf(output, i) = {} =>
                 /\ i \in ids
                 /\ read_status(<<LastRowOf(saved, i)>>)
                      = <<LastRowOf(existing_df, i)>>
       /\ write_status(merged_report(status_file, output)) = saved

\* A prior report with a repeated identifier, one identifier of this run
\* whose record changed and one identifier that is not in this run.
C11_Witness ==
  /\ run_pc = "metadata"
  /\ \E k, l \in DOMAIN existing_df :
       k # l /\ existing_df[k].Brnum = existing_df[l].Brnum
  /\ \E k \in DOMAIN existing_df, l \in DOMAIN output :
       /\ existing_df[k].Brnum = output[l].Brnum
       /\ existing_df[k].Status # output[l].Status
  /\ \E k \in DOMAIN existing_df : RowsOf(output, existing_df[k].Brnum) = {}

\* The rows of the ledger frame or file t whose identifier is i.
LedgerRowsOf(t, i) == { k \in DOMAIN t.rows : t.rows[k].BRnum = i }
LedgerIds(t) == { t.rows[k].BRnum : k \in DOMAIN t.rows }
NoDuplicateIds(t) == \A i \in LedgerIds(t) : Cardinality(LedgerRowsOf(t, i)) = 1

\* C12: after update_metadata the ledger has exactly one row for every
\* identifier of the queue, the record built in this run; a ledger without
\* repeated identifiers grows by the queue's size less the overlap.
C12_LedgerLastWins ==
  run_pc \in {"upload", "done"} =>
    /\ \A k \in DOMAIN download_queue :
         LET i == download_queue[k].BRnum
         IN /\ Cardinality(LedgerRowsOf(metadata_file, i)) = 1
            /\ \A l \in LedgerRowsOf(metadata_file, i) :
                 /\ metadata_file.rows[l].pdf_downloaded
                      = (IF Exists(download_dir, PdfName(i))
                         THEN "Yes" ELSE "No")
                 /\ <<metadata_file.rows[l]>>
                      = to_excel(Frame(metadata_file.cols,
                                       <<fill(new_data.rows[k],
                                              metadata_file.cols)>>)).rows
    /\ NoDuplicateIds(metadata_df) =>
         Len(metadata_file.rows)
           = Len(metadata_df.rows) + Len(download_queue)
               - Cardinality(LedgerIds(metadata_df)
                               \cap IndexSet(download_queue))

\* The ledger had (i, No), the artifact of i exists, and the queue holds i
\* and an identifier the ledger did not have.
C12_Witness ==
  /\ run_pc = "upload"
  /\ \E k \in DOMAIN metadata_df.rows :
       /\ metadata_df.rows[k].pdf_downloaded = "No"
       /\ metadata_df.rows[k].BRnum \in IndexSet(download_queue)
       /\ Exists(download_dir, PdfName(metadata_df.rows[k].BRnum))
  /\ \E i \in IndexSet(download_queue) : i \notin LedgerIds(metadata_df)

\* C13: the new ledger record of every row of the queue has flag Yes exactly
\* when the row's artifact is in the download directory after the
\* downloads, else No.
C13_FlagFromPostDownloadScan ==
  run_pc \in {"save_metadata", "upload", "done"} =>
    /\ Len(new_data.rows) = Len(download_queue)
    /\ \A k \in DOMAIN download_queue :
         /\ new_data.rows[k].BRnum = download_queue[k].BRnum
         /\ new_data.rows[k].pdf_downloaded = "Yes"
              <=> Exists(download_dir, PdfName(download_queue[k].BRnum))
         /\ new_data.rows[k].pdf_downloaded \in {"Yes", "No"}

\* A run downloaded one report and failed on another; both have a record.
C13_Witness ==
  /\ run_pc = "upload"
  /\ \E k, l \in DOMAIN new_data.rows :
       /\ new_data.rows[k].pdf_downloaded = "Yes"
       /\ new_data.rows[k].BRnum \notin { n \in Ids : Str(n) \in existing_downloads }
       /\ wpc[new_data.rows[k].BRnum] = "done"
       /\ new_data.rows[l].pdf_downloaded = "No"

\* C14: a reconciliation removes rows only of identifiers that were repeated
\* in the ledger before it: the ledger keeps at least one row per prior
\* identifier, and a ledger without repeated identifiers does not shrink.
C14_LedgerNeverShrinks ==
  run_pc \in {"upload", "done"} =>
    /\ Len(metadata_file.rows) >= Cardinality(LedgerIds(metadata_df))
    /\ LedgerIds(metadata_df) \subseteq LedgerIds(metadata_file)
    /\ NoDuplicateIds(metadata_df) =>
         Len(metadata_file.rows) >= Len(metadata_df.rows)

\* A ledger with a repeated identifier lost a row; the queue overlapped it.
C14_Witness ==
  /\ run_pc = "upload"
  /\ ~ NoDuplicateIds(metadata_df)
  /\ Len(metadata_file.rows) < Len(metadata_df.rows)
  /\ LedgerIds(metadata_df) \cap IndexSet(download_queue) # {}

\* C15: whenever the ledger file is overwritten the backup already holds the
\* ledger as it was loaded: a copy of the file, or the empty table with the
\* identifier and flag columns when there was no ledger.
C15_BackupBeforeOverwrite ==
  [][ metadata_file' # metadata_file =>
        /\ backup_file.state = "ok"
        /\ backup_file = to_excel(metadata_df)
        /\ metadata_file.state = "ok" => backup_file = metadata_file
        /\ metadata_file.state = "absent"
             => backup_file = LedgerFile(BaseCols, <<>>) ]_vars

\* The ledger was overwritten with new content and the backup has the old.
C15_Witness ==
  /\ run_pc = "upload"
  /\ backup_file.state = "ok"
  /\ backup_file.rows # <<>>
  /\ \E k \in DOMAIN backup_file.rows, c \in backup_file.cols \ BaseCols :
       backup_file.rows[k][c] = BLANK
  /\ metadata_file # backup_file

\* C16: the ledger has the same columns after update_metadata as before (the
\* identifier and flag columns when there was none), and the new records
\* carry a source column only if the ledger had it.
C16_SchemaStable ==
  run_pc \in {"upload", "done"} =>
    /\ metadata_file.cols = metadata_df.cols
    /\ backup_file.state = "ok" /\ metadata_file.cols = backup_file.cols
    /\ BaseCols \subseteq metadata_file.cols
    /\ \A k \in DOMAIN metadata_file.rows :
         DOMAIN metadata_file.rows[k] = metadata_file.cols
    /\ new_data.cols \cap SourceCols \subseteq metadata_df.cols

\* Records were added to a ledger that has a source column, and to one that
\* has none.
C16_Witness ==
  /\ run_pc = "upload"
  /\ download_queue # <<>>
  /\ "Pdf_URL" \in metadata_file.cols
  /\ \E k \in DOMAIN metadata_file.rows :
       metadata_file.rows[k]["Pdf_URL"] = PDF_LINK

\* The worker of report i has made its fetch (or is over).
Fetched(i) == wpc[i] \notin {"idle", "fetch"}

\* C17: a worker whose row has no Pdf_URL and has a Report Html Address makes
\* one fetch, of the Report Html Address, and when it ends without an error
\* the report's file is complete.
C17_FallbackFetched ==
  \A k \in DOMAIN download_queue :
    LET row == download_queue[k]
        i == row.BRnum
    IN (row.Pdf_URL = NaN /\ row.Html = HTML_LINK) =>
         /\ Fetched(i) => wurl[i] = <<HTML_LINK>>
         /\ ~ Fetched(i) => wurl[i] = <<>>
         /\ (wpc[i] = "done" /\ ~ WorkerFailed(i))
              => download_dir[PdfName(i)] = "complete"

\* A report without Pdf_URL was downloaded from its Report Html Address.
C17_Witness ==
  \E k \in DOMAIN download_queue :
    LET row == download_queue[k]
    IN /\ row.Pdf_URL = NaN /\ row.Html = HTML_LINK
       /\ wpc[row.BRnum] = "done"
       /\ wurl[row.BRnum] = <<HTML_LINK>>
       /\ download_dir[PdfName(row.BRnum)] = "complete"

\* C18: a worker whose row has an empty string as Pdf_URL and a Report Html
\* Address fetches the Report Html Address.
C18_EmptyPrimaryFallsBack ==
  \A k \in DOMAIN download_queue :
    LET row == download_queue[k]
    IN (row.Pdf_URL = BLANK /\ row.Html = HTML_LINK /\ Fetched(row.BRnum))
         => wurl[row.BRnum] = <<HTML_LINK>>

\* C19: a worker fetches once, the Pdf_URL when the row has one, whether or
\* not the fetch fails, and no report gets a second worker.
C19_OneFetchNoRetry ==
  /\ \A k, l \in DOMAIN threads : threads[k] = threads[l] => k = l
  /\ \A i \in Ids : wpc[i] # "idle" => \E k \in DOMAIN threads : threads[k] = i
  /\ \A k \in DOMAIN download_queue :
       LET row == download_queue[k]
           i == row.BRnum
       IN /\ Len(wurl[i]) = (IF Fetched(i) THEN 1 ELSE 0)
          /\ (Fetched(i) /\ row.Pdf_URL # NaN) => wurl[i] = <<row.Pdf_URL>>

\* The fetch of a Pdf_URL failed, the row has a Report Html Address, and the
\* run is over with that one fetch made.
C19_Witness ==
  /\ run_pc = "done"
  /\ \E k \in DOMAIN download_queue :
       LET row == download_queue[k]
       IN /\ row.Pdf_URL = PDF_LINK /\ row.Html = HTML_LINK
          /\ wmsg[row.BRnum] = "Network error"
          /\ wurl[row.BRnum] = <<PDF_LINK>>

\* The worker of report i is over and its fetch raised a RequestException.
TransportFailed(i) == wpc[i] = "done" /\ wmsg[i] = "Network error"

\* The positions of download_errors that hold the identifier i.
IdPositions(i) == { k \in DOMAIN download_errors : download_errors[k] = IdEntry(i) }

\* C20: a report whose fetch failed with a transport error has no file, has
\* one failure in download_errors, its identifier followed by its reason, and
\* has the status record (identifier, Failed, that reason).
C20_TransportFailure ==
  \A i \in Ids :
    TransportFailed(i) =>
      /\ ~ Exists(download_dir, PdfName(i))
      /\ Cardinality(IdPositions(i)) = 1
      /\ \A k \in IdPositions(i) :
           k + 1 <= Len(download_errors) /\ download_errors[k + 1] = OwnReason(i)
      /\ run_pc \in AfterReport =>
           \E k \in DOMAIN output :
             output[k] = StatusRecord(i, "Failed", OwnReason(i))

\* The worker of report i is over and caught no exception.
Succeeded(i) == wpc[i] = "done" /\ ~ WorkerFailed(i)

\* The files of the download directory that were not there at the start.
NewFiles ==
  { n \in FileNames : Exists(download_dir, n) /\ n[1] \notin existing_downloads }

\* C21: a worker that ends without an error has written the complete file
\* <identifier>.pdf and appended nothing to download_errors, no file appears
\* under any name but that of a started worker, and the report's status
\* record is (identifier, Downloaded, "").
C21_SuccessOutcome ==
  /\ Prepared =>
       NewFiles \subseteq { PdfName(threads[k]) : k \in DOMAIN threads }
  /\ \A i \in Ids :
       Succeeded(i) =>
         /\ download_dir[PdfName(i)] = "complete"
         /\ \A k \in DOMAIN download_errors : download_errors[k].of # i
         /\ run_pc \in AfterReport =>
              \E k \in DOMAIN output :
                output[k] = StatusRecord(i, "Downloaded", NoMsg)

\* One report was downloaded while the worker of another reported an error.
C21_Witness ==
  /\ run_pc \in AfterReport
  /\ \E i, j \in Ids :
       /\ Succeeded(i)
       /\ NewFiles = { PdfName(i) }
       /\ wpc[j] = "done" /\ WorkerFailed(j)
       /\ \E k \in DOMAIN output :
            output[k] = StatusRecord(i, "Downloaded", NoMsg)

\* The tags of the two classes of reasons.
NetworkTag == error_message("RequestException")
LocalTag == error_message("OSError")

\* C22: a worker whose fetch fails reports a reason tagged as a network
\* error, a worker whose open or write fails reports a reason with another
\* tag, and every reason in download_errors has one of the two tags.
C22_ReasonTagged ==
  [][ /\ NetworkTag # LocalTag
      /\ \A i \in Ids :
           (wpc[i] # "append_id" /\ wpc'[i] = "append_id") =>
             /\ wpc[i] = "fetch" => wmsg'[i] = NetworkTag
             /\ wpc[i] \in {"open", "write"} => wmsg'[i] = LocalTag
             /\ wmsg'[i] \in {NetworkTag, LocalTag}
      /\ \A k \in DOMAIN download_errors' :
           download_errors'[k].kind \in {"id", NetworkTag, LocalTag} ]_vars

\* download_errors holds a network reason and a local reason.
C22_Witness ==
  /\ \E k \in DOMAIN download_errors : download_errors[k].kind = "Network error"
  /\ \E k \in DOMAIN download_errors : download_errors[k].kind = "Unexpected error"

\* C23: a worker's error stops nothing: run() does not end in an exception,
\* and once download_pdfs has returned every row of the queue has had its
\* worker, the status report holds (identifier, Failed, reason) for the row
\* whose worker failed, and the ledger written at the end holds the row.
C23_ItemErrorNeverAborts ==
  (\E i \in Ids : WorkerFailed(i)) =>
    /\ run_pc # "crashed"
    /\ run_pc \in AfterDownload => Len(threads) = Len(download_queue)
    /\ run_pc \in AfterReport =>
         /\ status_file.state = "ok"
         /\ \A i \in Ids :
              (wpc[i] = "done" /\ WorkerFailed(i)) =>
                \E k \in DOMAIN output :
                  output[k].Brnum = i /\ output[k].Status = "Failed"
    /\ run_pc \in {"upload", "done"} =>
         /\ metadata_file.state = "ok"
         /\ \A i \in Ids :
              WorkerFailed(i) => i \in LedgerIds(metadata_file)

\* C24: when the report on disk cannot be read, create_output_report ends
\* normally and the report it saves is exactly the new records.
C24_UnreadableReportReplaced ==
  report_note = "Error reading existing report file" =>
    /\ run_pc = "metadata"
    /\ status_file = Table(write_status(output))
    /\ Len(status_file.rows) = Len(download_queue)

\* An unreadable report was replaced by the records of a queue of two.
C24_Witness ==
  /\ report_note = "Error reading existing report file"
  /\ status_file.state = "ok"
  /\ Len(status_file.rows) = 2
  /\ \E k \in DOMAIN status_file.rows : status_file.rows[k].Status = "Failed"

\* C25: an unreadable ledger does not end run() in an exception.
C25_UnreadableLedgerTolerated ==
  metadata_file.state = "unreadable" => run_pc # "crashed"

\* The source table is missing, unreadable or lacks a URL column.
SourceUnusable ==
  reports_file.state # "ok" \/ ~ has_url_columns(reports_file.rows)

\* C26: with an unusable source table run() ends at once: no worker is
\* started, no queue is built, and the download directory, the status
\* report, the ledger and its backup stay as they were.
C26_AbortBeforeDownloads ==
  [][ SourceUnusable =>
        /\ run_pc' \in {"aborted", "raised"}
        /\ threads' = <<>> /\ \A i \in Ids : wpc'[i] = "idle"
        /\ download_queue' = <<>> /\ download_errors' = <<>>
        /\ UNCHANGED << download_dir, status_file, metadata_file,
                        backup_file, output >> ]_vars

\* run() has ended on a source table without a URL column, with a status
\* report and a ledger on disk.
C26_Witness ==
  /\ run_pc = "raised"
  /\ reports_file \in TablesWithoutColumn
  /\ status_file.state = "ok" /\ metadata_file.state = "ok"
  /\ threads = <<>>

\* The download directory exists and can be listed.
Listable(dir) == dir[DirEntry] = "complete"

\* C27: get_existing_downloads returns the stems of the .pdf files in the
\* directory and nothing else, the empty result for a missing, unreadable or
\* empty directory, and leaves the directory as it is.
C27_ScanExact ==
  [][ run_pc' = "scanned" =>
        /\ download_dir' = download_dir
        /\ \A n \in FileNames \cup OtherNames :
             n[1] \in existing_downloads'
               <=> \E m \in FileNames \cup OtherNames :
                     /\ m[1] = n[1] /\ m[2] = "pdf"
                     /\ Listable(download_dir) /\ download_dir[m] # "absent"
        /\ existing_downloads' \subseteq
             { n[1] : n \in FileNames \cup OtherNames }
        /\ ~ Listable(download_dir) => existing_downloads' = {} ]_vars

\* A scan found a report's file and ignored a file that is not a .pdf.
C27_Witness ==
  /\ run_pc = "scanned"
  /\ Listable(download_dir)
  /\ download_dir[<<"2", "txt">>] = "complete"
  /\ download_dir[<<"2", "pdf">>] = "absent"
  /\ existing_downloads = {"1", "notes"}

\* C28: with an empty queue no worker is started and no outcome recorded,
\* run() does not end in an exception, and it writes the status report and
\* the ledger.
C28_EmptyQueue ==
  (Prepared /\ download_queue = <<>>) =>
    /\ threads = <<>> /\ \A i \in Ids : wpc[i] = "idle"
    /\ download_errors = <<>>
    /\ run_pc # "crashed"
    /\ run_pc \in AfterReport => status_file.state = "ok"
    /\ run_pc \in {"upload", "done"} =>
         metadata_file.state = "ok" /\ backup_file.state = "ok"

\* The identifiers of the rows run() still has to download, in the order of
\* the source table: a URL in the row and no file found at the start.
StillNeeded ==
  LET rows == reports_file.rows
      RECURSIVE From(_)
      From(k) ==
        IF k > Len(rows) THEN <<>>
        ELSE IF has_valid_url(rows[k])
                  /\ Str(rows[k].BRnum) \notin existing_downloads
             THEN <<rows[k].BRnum>> \o From(k + 1)
             ELSE From(k + 1)
  IN From(1)

\* C29: the workers started are, in order, the first still-needed rows, never
\* more than max_downloads of them, and all of the first max_downloads (or
\* all the needed rows when fewer) once download_pdfs has returned.
C29_BatchCap ==
  Prepared =>
    /\ Len(threads) <= max_downloads
    /\ Len(threads) <= Len(StillNeeded)
    /\ \A k \in DOMAIN threads : threads[k] = StillNeeded[k]
    /\ run_pc \in AfterDownload =>
         \/ Len(threads) = max_downloads
         \/ Len(threads) = Len(StillNeeded)

\* Two rows were needed and the cap of one let only the first be started.
C29_Witness ==
  /\ run_pc = "done"
  /\ max_downloads = 1
  /\ Len(StillNeeded) = 2
  /\ threads = <<StillNeeded[1]>>

\* The worker of report i has its file open.
Writing(i) == wpc[i] = "write"

\* C30: a step of a worker changes no file but <its identifier>.pdf, no two
\* workers have the same identifier, and a file that a worker has open is
\* not touched by another worker: it stays as open() left it.
C30_WritersNeverCollide ==
  [][ /\ \A i \in Ids :
           wpc'[i] # wpc[i] =>
             \A n \in FileNames \ {PdfName(i)} :
               download_dir'[n] = download_dir[n]
      /\ \A k, l \in DOMAIN threads' : threads'[k] = threads'[l] => k = l
      /\ \A i \in Ids : Writing(i)' => download_dir'[PdfName(i)] = "partial"
    ]_vars

\* Two workers have their files open at the same time.
C30_Witness ==
  \E i, j \in Ids :
    /\ i # j /\ Writing(i) /\ Writing(j)
    /\ download_dir[PdfName(i)] = "partial"
    /\ download_dir[PdfName(j)] = "partial"

\* A call of upload_to_drive has just returned.
UploadReturned == upload_calls' = upload_calls + 1

\* The local files whose calls do not raise in this call.
Uploadable == downloaded_files(download_dir) \ drive_faults

\* C32: in a call that reaches the loop, a file whose name is in the remote
\* folder gets no new remote file and is counted, a file whose name is not
\* gets one, nothing else changes in the folder, and so after any number of
\* calls no name is in the folder twice.
C32_UploadIdempotent ==
  [][ UploadReturned =>
        /\ \A n \in FileNames :
             /\ drive_files[n] > 0 => drive_files'[n] = drive_files[n]
             /\ drive_files'[n] <= 1
             /\ n \notin Uploadable => drive_files'[n] = drive_files[n]
        /\ (upload_result' = "True" /\ downloaded_files(download_dir) # {}) =>
             /\ \A n \in Uploadable : drive_files'[n] = 1
             /\ successful_uploads' = Cardinality(Uploadable) ]_vars

\* A second call found both files in the folder, skipped and counted them.
C32_Witness ==
  /\ upload_calls = 2
  /\ run_pc = "done"
  /\ upload_result = "True"
  /\ drive_faults = {}
  /\ Cardinality(downloaded_files(download_dir)) = 2
  /\ successful_uploads = 2
  /\ \A n \in FileNames : drive_files[n] = 1

\* What the call leaves alone when it does not reach the folder.
RemoteUntouched == UNCHANGED << drive_folder, drive_files >>

\* C33, as stated: the call returns False without any GoogleAuth call when
\* client_secrets.json is missing, True with the remote untouched when there
\* is no local file, False when the authentication or the folder lookup
\* raises, and True in every other case.
C33_UploadResultAsStated ==
  [][ UploadReturned =>
        upload_result' =
          IF ~ client_secrets THEN "False"
          ELSE IF AUTH \in drive_faults THEN "False"
          ELSE IF downloaded_files(download_dir) = {} THEN "True"
          ELSE IF LIST_FOLDER \in drive_faults THEN "False"
          ELSE "True" ]_vars

\* The folder has to be created and its creation raises.
CreationRaises == drive_folder = 0 /\ CREATE_FOLDER \in drive_faults

\* C33, amended: as stated, but the call also returns False when the
\* creation of the folder raises; when it returns True with local files,
\* every file whose own calls do not raise is in the folder, whatever the
\* other files did.
C33_UploadResult ==
  [][ UploadReturned =>
        LET local == downloaded_files(download_dir)
        IN /\ ~ client_secrets =>
                upload_result' = "False" /\ gauth_calls' = <<>>
                  /\ RemoteUntouched /\ credentials' = credentials
           /\ (client_secrets /\ AUTH \in drive_faults) =>
                upload_result' = "False" /\ RemoteUntouched
           /\ (client_secrets /\ AUTH \notin drive_faults) =>
                /\ local = {} => upload_result' = "True" /\ RemoteUntouched
                /\ (local # {} /\ LIST_FOLDER \in drive_faults) =>
                     upload_result' = "False" /\ RemoteUntouched
                /\ (local # {} /\ LIST_FOLDER \notin drive_faults
                               /\ CreationRaises) =>
                     upload_result' = "False" /\ RemoteUntouched
                /\ (local # {} /\ LIST_FOLDER \notin drive_faults
                               /\ ~ CreationRaises) =>
                     /\ upload_result' = "True"
                     /\ drive_folder' = 1
                     /\ \A n \in Uploadable : drive_files'[n] = 1 ]_vars

\* A call with local files found no folder, the creation of the folder
\* raised, and the call returned False with nothing uploaded.
C33_Witness ==
  /\ run_pc = "done"
  /\ upload_result = "False"
  /\ client_secrets
  /\ AUTH \notin drive_faults /\ LIST_FOLDER \notin drive_faults
  /\ CreationRaises
  /\ downloaded_files(download_dir) # {}
  /\ gauth_calls # <<>>

\* The GoogleAuth calls that authenticate.
AuthActions == {"LocalWebserverAuth", "Refresh", "Authorize"}

StagesOver(pc) ==
  CASE pc = "read" -> 0
    [] pc \in {"start", "poll", "drain"} -> 1
    [] pc = "report" -> 2
    [] pc \in {"metadata", "save_metadata", "crashed"} -> 3
    [] pc = "upload" -> 4
    [] OTHER -> 5

\* C31: in a run with a non-empty queue the stages follow one another in
\* the order scan, download_pdfs, status report, reconciliation, upload, each
\* stage does its work in its own turn and only there, the report and the
\* reconciliation start with no worker alive, and no stage is left out: the
\* run does not end before the upload.
C31_StagesOnceInOrder ==
  [][ (Prepared' /\ download_queue' # <<>>) =>
        /\ StagesOver(run_pc') \in {StagesOver(run_pc), StagesOver(run_pc) + 1}
        /\ existing_downloads' # existing_downloads => run_pc = "read"
        /\ threads' # threads => StagesOver(run_pc) = 1
        /\ status_file' # status_file => run_pc = "report"
        /\ metadata_file' # metadata_file => run_pc = "save_metadata"
        /\ upload_calls' # upload_calls => run_pc = "upload"
        /\ run_pc' \in {"report", "metadata", "save_metadata"} =>
             AliveCount' = 0 /\ Len(threads') = Len(download_queue')
        /\ run_pc' = "done" => upload_calls' = 1
        /\ run_pc' # "crashed" ]_vars

\* C35: with a limit of at least 1, once download_pdfs is entered every row
\* of the queue gets its thread and download_pdfs returns.
C35_DispatchTerminates ==
  (run_pc = "start" /\ max_concurrent_threads >= 1)
    ~> (/\ run_pc = "report"
        /\ Len(threads) = Len(download_queue)
        /\ AliveCount = 0)

\* download_pdfs has returned after two downloads made one at a time.
C35_Witness ==
  /\ run_pc = "report"
  /\ max_concurrent_threads = 1
  /\ Len(threads) = 2
  /\ AliveCount = 0

\* C36: a call of create_output_report leaves in the status report, and a
\* call of update_metadata leaves in the ledger, the row of every identifier
\* that is not in the call's queue and had one row only: the same values in
\* every column the row had, and still one row.
C36_HistoryPreserved ==
  [][ /\ (status_file.state = "ok" /\ status_file' # status_file) =>
           \A k \in DOMAIN status_file.rows :
             LET i == status_file.rows[k].Brnum
             IN (/\ i \notin IndexSet(download_queue)
                 /\ Cardinality(RowsOf(status_file.rows, i)) = 1)
                  => /\ Cardinality(RowsOf(status_file'.rows, i)) = 1
                     /\ LastRowOf(status_file'.rows, i) = status_file.rows[k]
      /\ (metadata_file.state = "ok" /\ metadata_file' # metadata_file) =>
           \A k \in DOMAIN metadata_file.rows :
             LET i == metadata_file.rows[k].BRnum
             IN (/\ i \notin IndexSet(download_queue)
                 /\ Cardinality(LedgerRowsOf(metadata_file, i)) = 1)
                  => /\ Cardinality(LedgerRowsOf(metadata_file', i)) = 1
                     /\ \A l \in LedgerRowsOf(metadata_file', i) :
                          \A c \in metadata_file.cols :
                            metadata_file'.rows[l][c]
                              = metadata_file.rows[k][c] ]_vars

\* After a second pair of calls the report and the ledger have grown, and
\* both hold a row of an identifier the second queue did not have; the
\* ledger row has a column of its own.
C36_Witness ==
  /\ run_pc = "upload"
  /\ existing_df # <<>>
  /\ metadata_df.rows # <<>>
  /\ Len(status_file.rows) > Len(existing_df)
  /\ Len(metadata_file.rows) > Len(metadata_df.rows)
  /\ \E k \in DOMAIN status_file.rows :
       /\ status_file.rows[k].Brnum \notin IndexSet(download_queue)
       /\ status_file.rows[k].Status = "Downloaded"
  /\ \E k \in DOMAIN metadata_file.rows :
       /\ metadata_file.rows[k].BRnum \notin IndexSet(download_queue)
       /\ "Note" \in DOMAIN metadata_file.rows[k]
       /\ metadata_file.rows[k].pdf_downloaded = "Yes"

\* C37: once a run has built its status records and its ledger records, the
\* two have one record per row of the queue, in the queue's order, and the
\* status is Downloaded exactly when the flag is Yes; so do the rows the run
\* saved in the status report and in the ledger.
C37_ProjectionsAgree ==
  /\ run_pc \in {"save_metadata", "upload", "done"} =>
       /\ Len(output) = Len(download_queue)
       /\ Len(new_data.rows) = Len(download_queue)
       /\ \A k \in DOMAIN download_queue :
            /\ output[k].Brnum = download_queue[k].BRnum
            /\ new_data.rows[k].BRnum = download_queue[k].BRnum
            /\ output[k].Status = "Downloaded"
                 <=> new_data.rows[k].pdf_downloaded = "Yes"
  /\ run_pc \in {"upload", "done"} =>
       \A i \in IndexSet(download_queue) :
         /\ RowsOf(status_file.rows, i) # {}
         /\ LedgerRowsOf(metadata_file, i) # {}
         /\ \A l \in LedgerRowsOf(metadata_file, i) :
              LastRowOf(status_file.rows, i).Status = "Downloaded"
                <=> metadata_file.rows[l].pdf_downloaded = "Yes"

\* A finished run whose queue had a row that was downloaded and a row that
\* failed.
C37_Witness ==
  /\ run_pc = "done"
  /\ \E k, l \in DOMAIN output :
       /\ output[k].Status = "Downloaded"
       /\ new_data.rows[k].pdf_downloaded = "Yes"
       /\ output[l].Status = "Failed"
       /\ new_data.rows[l].pdf_downloaded = "No"

\* C38: a row whose worker recorded a failure in download_errors is not
\* reported Downloaded by the run's status records and not flagged Yes by
\* the run's ledger records.
C38_FailureNeverDownloaded ==
  \A k \in DOMAIN download_queue :
    LET i == download_queue[k].BRnum
    IN (WorkerFailed(i) /\ IdPositions(i) # {}) =>
         /\ run_pc \in AfterReport => output[k].Status # "Downloaded"
         /\ run_pc \in {"save_metadata", "upload", "done"}
              => new_data.rows[k].pdf_downloaded # "Yes"

\* The source table has a link for report i and its artifact is not in the
\* download directory.
Needed(i) ==
  /\ reports_file.state = "ok"
  /\ has_url_columns(reports_file.rows)
  /\ \E k \in DOMAIN reports_file.rows :
       reports_file.rows[k].BRnum = i /\ has_valid_url(reports_file.rows[k])
  /\ ~ Exists(download_dir, PdfName(i))

\* A thread of this run was started for report i.
Dispatched(i) == \E k \in DOMAIN threads : threads[k] = i

\* C39: over runs of the program on the same source table, whenever a report
\* has a link and no artifact, a thread is eventually started for it.
C39_NeededEventuallyDispatched ==
  \A i \in Ids : Needed(i) ~> Dispatched(i)

====
